---------------------------- MODULE Spec2Model ----------------------------
(***************************************************************************)
(* loggero: a named-logger facility.  src/unnamed/part_002 holds two       *)
(* implementations of the logger module:                                   *)
(*   implementation "A", lines 1-276   (logData, _global._enabled)         *)
(*   implementation "B", lines 278-510 (write, _enableAll, defaultEnabled) *)
(* The variable impl says which of the two a behaviour runs; it is fixed   *)
(* by the initial state.  Both share the registry, the exclusivity         *)
(* reference and the per-logger fields; they differ in the constructor's   *)
(* default for `enabled`, in isEnabled, in enableAll/disableAll and in     *)
(* how the stream to write to is found.                                    *)
(***************************************************************************)
EXTENDS Integers, Sequences, FiniteSets, TLC

(***************************************************************************)
(* Bounds of the model.                                                    *)
(***************************************************************************)
\* number of names, besides "global", that create/find are called with
MaxLoggers == 1
\* highest rank a caller passes as a threshold or as the level of write
\* (the per-level methods go up to levels.error = 3 whatever this is)
MaxRank == 2
\* in the behaviours that follow several payloads, their number
MaxTrace == 2

(***************************************************************************)
(* Values.                                                                 *)
(***************************************************************************)
\* var levels = { log: 1, info: 1, warn: 2, error: 3 }
levels == [log |-> 1, info |-> 1, warn |-> 2, error |-> 3]

LevelNames == {"log", "info", "warn", "error"}

NamePool == <<"a", "b", "c", "d">>

Names == {"global"} \cup {NamePool[i] : i \in 1..MaxLoggers}

\* the names used in the behaviours that follow streams and payloads
TraceNames == {"global", "a"}

\* names that var _loggers = {} has without any create: a plain object
\* inherits the properties of Object.prototype, all of them truthy
ObjectPrototypeKeys == {"toString", "constructor"}

\* JavaScript's undefined/null where a Logger reference is expected
NoRef == 0

\* JavaScript's undefined where a stream is expected
NoStream == "undefined"

\* the streams a caller can pass, and the built-in console stream
UserStreams == {"s1"}

Sinks == {"console"} \cup UserStreams

\* a level argument that is falsy: omitted (undefined) or 0
NoLevel == 0

Ranks == 1..MaxRank

\* argument lists of the per-level methods, and the data values of write
DataValues == {<<"x", "y">>, <<"y">>}

\* the options object of create(name, options): `has` is
\* options.hasOwnProperty('enabled')
Options ==
  { o \in [has : BOOLEAN, enabled : BOOLEAN,
           stream : {NoStream} \cup UserStreams,
           level : {NoLevel, levels.warn}] : o.has \/ ~o.enabled }

VARIABLES
  impl,       \* "A" or "B": which implementation of part_002 runs
  loggers,    \* _loggers: name -> Logger object, for the registered names
  nextId,     \* identity of the next Logger object constructed
  only,       \* _only: identity of the logger holding exclusivity, or NoRef
  enableAll,  \* _enableAll (implementation B); falsy until enableAll()
  sinks,      \* for each sink, the payloads its write() has received
  last,       \* the last call: operation, receiver, arguments, result
  allOff      \* history: disableAll() was called and enableAll() not since

vars == <<impl, loggers, nextId, only, enableAll, sinks, last, allOff>>

(***************************************************************************)
(* The record of a call: its receiver (`self`, the identity of `this`, and *)
(* `name`, its name; for create and find `name` is the argument), its      *)
(* arguments (of create's options only whether they have `enabled`), for   *)
(* only() and all() the value `held` that _only had when called, what it   *)
(* returned and what it passed to a stream's write().                      *)
(***************************************************************************)
RetLogger(id) == [kind |-> "logger", id |-> id, stream |-> NoStream]

RetStream(s) == [kind |-> "stream", id |-> NoRef, stream |-> s]

RetUndefined == [kind |-> "undefined", id |-> NoRef, stream |-> NoStream]

RetThrow == [kind |-> "throw", id |-> NoRef, stream |-> NoStream]

\* a property _loggers inherits from Object.prototype: a function, no Logger
RetInherited == [kind |-> "function", id |-> NoRef, stream |-> NoStream]

NoOptions == [has |-> FALSE, enabled |-> FALSE, stream |-> NoStream,
              level |-> NoLevel]

NoCall ==
  [op |-> "load", self |-> NoRef, name |-> "", hasEnabled |-> FALSE,
   level |-> NoLevel, data |-> <<>>, held |-> NoRef, ret |-> RetUndefined,
   out |-> <<>>]

\* a call on the logger `this` that returns `this`
Chained(op, this) ==
  [NoCall EXCEPT !.op = op, !.self = this.id, !.name = this.name,
                 !.ret = RetLogger(this.id)]

(***************************************************************************)
(* The Logger constructor.                                                 *)
(***************************************************************************)
\* Logger.prototype.defaultEnabled = false (B); options.enabled = true (A)
defaultEnabled(i) == IF i = "A" THEN TRUE ELSE FALSE

\* function Logger(name, options)
Logger(i, id, name, options) ==
  [id      |-> id,
   name    |-> name,
   enabled |-> IF options.has THEN options.enabled ELSE defaultEnabled(i),
   stream  |-> IF options.stream # NoStream THEN options.stream ELSE "console",
   level   |-> IF options.level # NoLevel THEN options.level ELSE levels.log]

\* var _global = new Logger('global')
_global == loggers["global"]

Registered == DOMAIN loggers

\* the Logger objects that exist: every one is in the registry
Ids == {loggers[n].id : n \in Registered}

ById(id) == CHOOSE n \in Registered : loggers[n].id = id

(***************************************************************************)
(* The filter.                                                             *)
(***************************************************************************)
\* isEnabled (A) as it would be without the test of _only
isEnabledAIgnoringOnly(this, level) ==
  IF ~_global.enabled
  THEN FALSE
  ELSE /\ this.enabled
       /\ (_global.level <= level \/ this.level <= level)

\* isEnabled (A) as it would be if only the logger's own threshold counted
isEnabledAOwnThreshold(this, level) ==
  IF ~_global.enabled
  THEN FALSE
  ELSE /\ this.enabled
       /\ this.level <= level
       /\ (only = NoRef \/ only = this.id)

\* implementation A, Logger.prototype.isEnabled
isEnabledA(this, level) ==
  IF ~_global.enabled
  THEN FALSE
  ELSE /\ this.enabled
       /\ (_global.level <= level \/ this.level <= level)
       /\ (only = NoRef \/ only = this.id)

\* isEnabled (B) as it would be if _enableAll did not replace the logger's
\* own flag
isEnabledBOwnFlag(this, level) ==
  /\ this.enabled
  /\ this.level <= level
  /\ (only = NoRef \/ only = this.id)

\* implementation B, Logger.prototype.isEnabled
isEnabledB(this, level) ==
  /\ (enableAll \/ this.enabled)
  /\ this.level <= level
  /\ (only = NoRef \/ only = this.id)

isEnabled(this, level) ==
  IF impl = "A" THEN isEnabledA(this, level) ELSE isEnabledB(this, level)

(***************************************************************************)
(* The initial state: the module has been loaded.                          *)
(***************************************************************************)
InitOf(i) ==
  /\ impl = i
  /\ loggers = [n \in {"global"} |-> Logger(i, 1, "global", NoOptions)]
  /\ nextId = 2
  /\ only = NoRef
  /\ enableAll = FALSE
  /\ sinks = [s \in Sinks |-> <<>>]
  /\ last = NoCall
  /\ allOff = FALSE

Init == \E i \in {"A", "B"} : InitOf(i)

InitA == InitOf("A")

InitB == InitOf("B")

(***************************************************************************)
(* The registry.                                                           *)
(***************************************************************************)
\* _loggers[name]: the Logger registered under the name, else what the
\* object inherits under that name, else undefined
lookup(name) ==
  IF name \in Registered THEN RetLogger(loggers[name].id)
  ELSE IF name \in ObjectPrototypeKeys THEN RetInherited
  ELSE RetUndefined

\* create as it would be without the lookup: a new Logger for every call
createFresh(name, options) ==
  /\ loggers' = [n \in Registered \cup {name} |->
                   IF n = name
                   THEN Logger(impl, nextId, name, options)
                   ELSE loggers[n]]
  /\ nextId' = nextId + 1
  /\ last' = [NoCall EXCEPT !.op = "create", !.name = name,
                            !.hasEnabled = options.has,
                            !.ret = RetLogger(nextId)]
  /\ UNCHANGED <<impl, only, enableAll, sinks, allOff>>

\* create as it would be if it applied the options to a registered logger
createReconfiguring(name, options) ==
  /\ IF lookup(name) # RetUndefined
     THEN /\ last' = [NoCall EXCEPT !.op = "create", !.name = name,
                                    !.hasEnabled = options.has,
                                    !.ret = lookup(name)]
          /\ loggers' = IF name \in Registered
                        THEN [loggers EXCEPT ![name] =
                                Logger(impl, loggers[name].id, name, options)]
                        ELSE loggers
          /\ UNCHANGED nextId
     ELSE /\ loggers' = [n \in Registered \cup {name} |->
                           IF n = name
                           THEN Logger(impl, nextId, name, options)
                           ELSE loggers[n]]
          /\ nextId' = nextId + 1
          /\ last' = [NoCall EXCEPT !.op = "create", !.name = name,
                                    !.hasEnabled = options.has,
                                    !.ret = RetLogger(nextId)]
  /\ UNCHANGED <<impl, only, enableAll, sinks, allOff>>

\* Logger.prototype.create
create(name, options) ==
  /\ IF lookup(name) # RetUndefined
     THEN /\ last' = [NoCall EXCEPT !.op = "create", !.name = name,
                                    !.hasEnabled = options.has,
                                    !.ret = lookup(name)]
          /\ UNCHANGED <<loggers, nextId>>
     ELSE /\ loggers' = [n \in Registered \cup {name} |->
                           IF n = name
                           THEN Logger(impl, nextId, name, options)
                           ELSE loggers[n]]
          /\ nextId' = nextId + 1
          /\ last' = [NoCall EXCEPT !.op = "create", !.name = name,
                                    !.hasEnabled = options.has,
                                    !.ret = RetLogger(nextId)]
  /\ UNCHANGED <<impl, only, enableAll, sinks, allOff>>

\* Logger.prototype.find
find(name) ==
  /\ last' = [NoCall EXCEPT !.op = "find", !.name = name,
                            !.ret = lookup(name)]
  /\ UNCHANGED <<impl, loggers, nextId, only, enableAll, sinks, allOff>>

(***************************************************************************)
(* Streams and writes.                                                     *)
(***************************************************************************)
\* pipe as it would be if it kept the stream the logger has
pipeKeepingStream(self, stream) ==
  /\ last' = [Chained("pipe", loggers[self]) EXCEPT !.ret = RetStream(stream)]
  /\ UNCHANGED <<impl, loggers, nextId, only, enableAll, sinks, allOff>>

\* Logger.prototype.pipe
pipe(self, stream) ==
  /\ loggers' = IF stream # loggers[self].stream
                THEN [loggers EXCEPT ![self].stream = stream]
                ELSE loggers
  /\ last' = [Chained("pipe", loggers[self]) EXCEPT !.ret = RetStream(stream)]
  /\ UNCHANGED <<impl, nextId, only, enableAll, sinks, allOff>>

\* implementation A, Logger.prototype.stream
streamA(this) == IF this.stream # NoStream THEN this.stream ELSE _global.stream

\* implementation B: this._stream
streamB(this) == this.stream

streamOf(this) == IF impl = "A" THEN streamA(this) ELSE streamB(this)

\* createPayload as it would be if it lost the last argument
createPayloadDroppingLast(name, level, data) ==
  [level |-> level, name |-> name,
   data |-> SubSeq(data, 1, Len(data) - 1)]

\* function createPayload(name, level, data); the date is not modelled
createPayload(name, level, data) ==
  [level |-> level, name |-> name, data |-> data]

\* level = level || levels.info
levelOrDefault(level) == IF level # NoLevel THEN level ELSE levels.info

\* a sink that puts the payload before the ones it has
sinkWritePrepend(s, payload) == [sinks EXCEPT ![s] = <<payload>> \o @]

\* what stream.write(payload) does to the sink
sinkWrite(s, payload) == [sinks EXCEPT ![s] = Append(@, payload)]

\* the number of payloads the sinks have received
Delivered == Len(sinks["console"]) + Len(sinks["s1"])

\* Logger.prototype.logData (A) / Logger.prototype.write (B)
writeAs(op, self, level0, data) ==
  LET this    == loggers[self]
      level   == levelOrDefault(level0)
      payload == createPayload(this.name, level, data)
      call    == [Chained(op, this) EXCEPT !.level = level0, !.data = data]
  IN /\ IF isEnabled(this, level)
        THEN IF streamOf(this) = NoStream
             THEN \* undefined.write(...): a TypeError propagates
                  /\ last' = [call EXCEPT !.ret = RetThrow]
                  /\ UNCHANGED sinks
             ELSE /\ sinks' = sinkWrite(streamOf(this), payload)
                  /\ last' = [call EXCEPT !.out =
                                <<[stream |-> streamOf(this),
                                   payload |-> payload]>>]
        ELSE /\ last' = call
             /\ UNCHANGED sinks
     /\ UNCHANGED <<impl, loggers, nextId, only, enableAll, allOff>>

write(self, level, data) == writeAs("write", self, level, data)

\* Logger.prototype[level] = function() { return this.write(levels[level],
\* arguments) }
levelMethod(self, m, args) == writeAs(m, self, levels[m], args)

(***************************************************************************)
(* Enablement.                                                             *)
(***************************************************************************)
\* Logger.prototype.enable
enable(self) ==
  /\ loggers' = [loggers EXCEPT ![self].enabled = TRUE]
  /\ last' = Chained("enable", loggers[self])
  /\ UNCHANGED <<impl, nextId, only, enableAll, sinks, allOff>>

\* disable as it would be if disabling the holder released exclusivity
disableReleasing(self) ==
  /\ loggers' = [loggers EXCEPT ![self].enabled = FALSE]
  /\ only' = IF only = loggers[self].id THEN NoRef ELSE only
  /\ last' = Chained("disable", loggers[self])
  /\ UNCHANGED <<impl, nextId, enableAll, sinks, allOff>>

\* Logger.prototype.disable
disable(self) ==
  /\ loggers' = [loggers EXCEPT ![self].enabled = FALSE]
  /\ last' = Chained("disable", loggers[self])
  /\ UNCHANGED <<impl, nextId, only, enableAll, sinks, allOff>>

\* only as it would be without the test of _only: the caller takes over
onlyAfterTakeover(cur, this) == this.id

\* Logger.prototype.only: the new value of _only
onlyAfter(cur, this) == IF cur = NoRef THEN this.id ELSE cur

onlyOp(self) ==
  /\ only' = onlyAfter(only, loggers[self])
  /\ last' = [Chained("only", loggers[self]) EXCEPT !.held = only]
  /\ UNCHANGED <<impl, loggers, nextId, enableAll, sinks, allOff>>

\* all as it would be if it left _only as it is
allAfterKeeping(cur) == cur

\* Logger.prototype.all: the new value of _only
allAfter(cur) == NoRef

all(self) ==
  /\ only' = allAfter(only)
  /\ last' = [Chained("all", loggers[self]) EXCEPT !.held = only]
  /\ UNCHANGED <<impl, loggers, nextId, enableAll, sinks, allOff>>

\* Logger.prototype.enableAll / disableAll: A sets _global._enabled, B sets
\* _enableAll
setAll(op, self, flag) ==
  /\ IF impl = "A"
     THEN /\ loggers' = [loggers EXCEPT !["global"].enabled = flag]
          /\ UNCHANGED enableAll
     ELSE /\ enableAll' = flag
          /\ UNCHANGED loggers
  /\ last' = Chained(op, loggers[self])
  /\ allOff' = ~flag
  /\ UNCHANGED <<impl, nextId, only, sinks>>

enableAllOp(self) == setAll("enableAll", self, TRUE)

disableAllOp(self) == setAll("disableAll", self, FALSE)

\* Logger.prototype.level
level(self, n) ==
  /\ loggers' = [loggers EXCEPT ![self].level = n]
  /\ last' = [Chained("level", loggers[self]) EXCEPT !.level = n]
  /\ UNCHANGED <<impl, nextId, only, enableAll, sinks, allOff>>

(***************************************************************************)
(* The next-state relation.  A client calls the API with names drawn from  *)
(* `names`, on any logger registered under one of these names, until the   *)
(* sinks have received `cap` payloads.                                     *)
(***************************************************************************)
\* the sinks have received fewer than `cap` payloads
Running(cap) == Delivered < cap

\* create and find
RegistryCalls(names, options, cap) ==
  \/ \E name \in names, o \in options : Running(cap) /\ create(name, o)
  \/ \E name \in names : Running(cap) /\ find(name)

\* write/logData and the per-level methods
WriteCalls(names, lvls, datas, cap) ==
  \/ \E self \in Registered \cap names, l \in lvls, d \in datas :
        Running(cap) /\ write(self, l, d)
  \/ \E self \in Registered \cap names, m \in LevelNames, d \in datas :
        Running(cap) /\ levelMethod(self, m, d)

\* the calls that change what the filter reads
FilterCalls(names, ranks, cap) ==
  \/ \E self \in Registered \cap names : Running(cap) /\ enable(self)
  \/ \E self \in Registered \cap names : Running(cap) /\ disable(self)
  \/ \E self \in Registered \cap names : Running(cap) /\ onlyOp(self)
  \/ \E self \in Registered \cap names : Running(cap) /\ all(self)
  \/ \E self \in Registered \cap names : Running(cap) /\ enableAllOp(self)
  \/ \E self \in Registered \cap names : Running(cap) /\ disableAllOp(self)
  \/ \E self \in Registered \cap names, n \in ranks :
        Running(cap) /\ level(self, n)

PipeCalls(names, streams, cap) ==
  \E self \in Registered \cap names, s \in streams :
    Running(cap) /\ pipe(self, s)

\* Every call but pipe, every logger on the console stream it is created
\* with, until the first payload is delivered.
Next ==
  \/ RegistryCalls(Names, {o \in Options : o.stream = NoStream}, 1)
  \/ WriteCalls(Names, {NoLevel, MaxRank}, {<<"x", "y">>}, 1)
  \/ FilterCalls(Names, Ranks, 1)

\* Every call, two loggers at the default threshold, until MaxTrace payloads
\* are delivered.
NextTrace ==
  \/ RegistryCalls(TraceNames, {o \in Options : o.level = NoLevel}, MaxTrace)
  \/ WriteCalls(TraceNames, {NoLevel}, {<<"x", "y">>}, MaxTrace)
  \/ FilterCalls(TraceNames, {levels.log}, MaxTrace)
  \/ PipeCalls(TraceNames, Sinks, MaxTrace)

\* Every call but pipe, two loggers, every level and argument list, until
\* the first payload is delivered.
NextPayload ==
  \/ RegistryCalls(TraceNames, {o \in Options : o.stream = NoStream}, 1)
  \/ WriteCalls(TraceNames, {NoLevel} \cup Ranks, DataValues, 1)
  \/ FilterCalls(TraceNames, Ranks, 1)

\* create and find also with the names _loggers inherits, the other calls
\* on the registered loggers, until the first payload is delivered.
NextRegistry ==
  \/ RegistryCalls(TraceNames \cup ObjectPrototypeKeys,
                   {o \in Options : o.stream = NoStream /\ o.level = NoLevel},
                   1)
  \/ WriteCalls(TraceNames, {NoLevel}, {<<"x", "y">>}, 1)
  \/ FilterCalls(TraceNames, {levels.log}, 1)

\* Every call, pipe also with undefined, two loggers at the default
\* threshold, until the first payload is delivered.
NextSink ==
  \/ RegistryCalls(TraceNames,
                   {o \in Options : o.stream = NoStream /\ o.level = NoLevel},
                   1)
  \/ WriteCalls(TraceNames, {NoLevel}, {<<"x", "y">>}, 1)
  \/ FilterCalls(TraceNames, {levels.log}, 1)
  \/ PipeCalls(TraceNames, {NoStream} \cup Sinks, 1)

\* both implementations
Spec == Init /\ [][Next]_vars

SpecA == InitA /\ [][Next]_vars

SpecB == InitB /\ [][Next]_vars

SpecTrace == Init /\ [][NextTrace]_vars

SpecPayload == Init /\ [][NextPayload]_vars

SpecRegistry == Init /\ [][NextRegistry]_vars

SpecSink == Init /\ [][NextSink]_vars

(***************************************************************************)
(* What the claims speak of.                                               *)
(***************************************************************************)
WriteOps == LevelNames \cup {"write"}

\* the call is a write(level, data) / logData(level, data) or a per-level
\* method
IsWrite(c) == c.op \in WriteOps

\* the call handed a payload to a stream
Emitted(c) == c.out # <<>>

\* the lowest rank of the level enum
LowestRank == CHOOSE r \in {levels[m] : m \in LevelNames} :
                \A m \in LevelNames : r <= levels[m]

\* the rank a write call is made at: the rank of the method's level, or the
\* level passed to write, the lowest rank when it is omitted
RankOf(c) ==
  IF c.op \in LevelNames THEN levels[c.op]
  ELSE IF c.level = NoLevel THEN LowestRank ELSE c.level

\* the logger the last call was made on
Caller == loggers[last.name]

\* the emit decision of logger X at rank r when no exclusivity is held:
\* the enable flags and the thresholds alone
BaseDecision(X, r) ==
  IF impl = "A"
  THEN _global.enabled /\ X.enabled /\ (_global.level <= r \/ X.level <= r)
  ELSE (enableAll \/ X.enabled) /\ X.level <= r

(***************************************************************************)
(* C1.  Registry stability: no step removes a registry entry or replaces   *)
(* its Logger object; create on a registered name returns that object and  *)
(* leaves its enabled flag, threshold and stream as they are, whatever the *)
(* options; find on a registered name returns that object.                 *)
(***************************************************************************)
C1_RegistryStable ==
  [][\A n \in Registered :
       /\ n \in DOMAIN loggers'
       /\ loggers'[n].id = loggers[n].id
       /\ (last'.op = "create" /\ last'.name = n
             => /\ last'.ret = RetLogger(loggers[n].id)
                /\ loggers'[n] = loggers[n])
       /\ (last'.op = "find" /\ last'.name = n
             => last'.ret = RetLogger(loggers[n].id))]_vars

\* create('a', options) was called with options that have no `enabled`, in
\* implementation A, where the constructor makes of them an enabled logger,
\* and returned the registered logger 'a', which is still disabled
C1_Witness ==
  /\ impl = "A"
  /\ last.op = "create"
  /\ last.name = "a"
  /\ ~last.hasEnabled
  /\ "a" \in Registered
  /\ ~loggers["a"].enabled
  /\ last.ret = RetLogger(loggers["a"].id)

(***************************************************************************)
(* C2.  Severity threshold in implementation A: a call on an enabled       *)
(* logger X, with logging globally enabled and no exclusivity held,        *)
(* delivers nothing at a rank below X's threshold and exactly one payload  *)
(* at a rank that meets it, whatever the threshold of the global logger.   *)
(***************************************************************************)
C2_ThresholdA ==
  (/\ impl = "A"
   /\ IsWrite(last)
   /\ Caller.enabled
   /\ _global.enabled
   /\ only = NoRef)
  => /\ RankOf(last) < Caller.level => last.out = <<>>
     /\ RankOf(last) >= Caller.level => Len(last.out) = 1

(***************************************************************************)
(* C3.  While a logger holds exclusivity, a write on any other logger      *)
(* delivers nothing; all() leaves no exclusivity held, and with none held  *)
(* a write delivers exactly when the enable flags and thresholds say so.   *)
(***************************************************************************)
C3_OnlySilencesAllRestores ==
  /\ (IsWrite(last) /\ only # NoRef /\ only # last.self) => last.out = <<>>
  /\ last.op = "all" => only = NoRef
  /\ (IsWrite(last) /\ only = NoRef)
       => (Emitted(last) <=> BaseDecision(Caller, RankOf(last)))

\* a write on an enabled logger at a rank meeting its threshold delivered
\* nothing because another logger holds exclusivity
C3_Witness ==
  /\ IsWrite(last)
  /\ only # NoRef
  /\ only # last.self
  /\ BaseDecision(Caller, RankOf(last))
  /\ last.out = <<>>

(***************************************************************************)
(* C4.  First exclusivity claim wins: only() called while a logger holds   *)
(* exclusivity leaves the holder and every other part of the state as they *)
(* are; the holder changes from one logger only through all(), to none.    *)
(***************************************************************************)
C4_FirstOnlyWins ==
  [][/\ (last'.op = "only" /\ only # NoRef)
          => /\ only' = only
             /\ loggers' = loggers
             /\ nextId' = nextId
             /\ enableAll' = enableAll
             /\ sinks' = sinks
     /\ (only # NoRef /\ only' # only)
          => (last'.op = "all" /\ only' = NoRef)]_vars

\* only() was called on a logger while another one held exclusivity, and
\* that one still holds it
C4_Witness ==
  /\ last.op = "only"
  /\ only # NoRef
  /\ only # last.self

(***************************************************************************)
(* C5.  Global disable overrides every logger-specific setting: from       *)
(* disableAll() until enableAll(), no write on any logger delivers a       *)
(* payload, whatever per-logger calls are made in between.                 *)
(***************************************************************************)
C5_DisableAllOverrides == (allOff /\ IsWrite(last)) => last.out = <<>>

(***************************************************************************)
(* C6.  Per-logger settings take precedence over enableAll() in            *)
(* implementation B: with enableAll() in force, a write on a logger whose  *)
(* own flag is disabled delivers nothing; and while exclusivity is held,   *)
(* only the holder delivers.                                               *)
(***************************************************************************)
C6_PerLoggerPrecedenceB ==
  (impl = "B" /\ IsWrite(last))
  => /\ (enableAll /\ ~Caller.enabled) => last.out = <<>>
     /\ (only # NoRef /\ only # last.self) => last.out = <<>>

(***************************************************************************)
(* C7.  Default enablement: a logger that create(name, options) constructs *)
(* from options without `enabled` is enabled.                              *)
(***************************************************************************)
C7_DefaultEnabled ==
  [][(/\ last'.op = "create"
      /\ last'.name \notin Registered
      /\ ~last'.hasEnabled)
     => loggers'[last'.name].enabled]_vars

(***************************************************************************)
(* C8.  pipe redirects: X.pipe(s) returns s, makes s the stream of X and   *)
(* changes no other logger and no sink; a payload X emits goes to the      *)
(* stream X has, appended to it, every other sink staying as it is; and a  *)
(* logger's stream changes only by pipe on that logger.                    *)
(***************************************************************************)
C8_PipeRedirects ==
  [][/\ last'.op = "pipe"
          => /\ last'.ret.kind = "stream"
             /\ loggers'[last'.name].stream = last'.ret.stream
             /\ \A n \in Registered \ {last'.name} : loggers'[n] = loggers[n]
             /\ sinks' = sinks
     /\ (IsWrite(last') /\ Emitted(last'))
          => LET s == loggers[last'.name].stream
             IN /\ last'.out[1].stream = s
                /\ sinks'[s] = Append(sinks[s], last'.out[1].payload)
                /\ \A t \in Sinks \ {s} : sinks'[t] = sinks[t]
     /\ \A n \in Registered :
          loggers'[n].stream # loggers[n].stream
          => (last'.op = "pipe" /\ last'.name = n)]_vars

\* logger 'a' delivered one payload to the console, was piped to s1 and
\* delivered the next payload to s1: the console has received no more
C8_Witness ==
  /\ Len(sinks["console"]) = 1
  /\ sinks["console"][1].name = "a"
  /\ Len(sinks["s1"]) = 1
  /\ sinks["s1"][1].name = "a"
  /\ IsWrite(last)
  /\ Emitted(last)
  /\ last.out[1].stream = "s1"

(***************************************************************************)
(* C9.  Delivery order: a write step whose filter is true at call time     *)
(* appends exactly one payload, the one it emits, at the end of what the   *)
(* logger's sink has received; a write step whose filter is false, and     *)
(* every step that is no write, leaves every sink as it is.                *)
(***************************************************************************)
C9_DeliveryOrder ==
  [][IF IsWrite(last')
     THEN LET X == loggers[last'.name]
          IN IF isEnabled(X, RankOf(last'))
             THEN /\ Len(last'.out) = 1
                  /\ sinks' = [sinks EXCEPT
                                 ![X.stream] = Append(@, last'.out[1].payload)]
             ELSE /\ last'.out = <<>>
                  /\ sinks' = sinks
     ELSE sinks' = sinks]_vars

\* a sink has received two different payloads, the error before the log
C9_Witness ==
  \E s \in Sinks :
    /\ Len(sinks[s]) = 2
    /\ sinks[s][1].level = levels.error
    /\ sinks[s][2].level = levels.log
    /\ sinks[s][1].name = sinks[s][2].name

(***************************************************************************)
(* C10.  Payload content: the payload an emitted call delivers has the     *)
(* name of the logger called, the rank of the method's level (for write,   *)
(* the level supplied, the lowest rank when it is omitted) and as data the *)
(* arguments, in number and order (for write, the data supplied).          *)
(***************************************************************************)
C10_PayloadContent ==
  (IsWrite(last) /\ Emitted(last))
  => LET p == last.out[1].payload
     IN /\ Len(last.out) = 1
        /\ p.name = last.name
        /\ loggers[p.name].id = last.self
        /\ p.level = RankOf(last)
        /\ p.data = last.data

\* warn('x', 'y') on logger 'a' was emitted
C10_Witness ==
  /\ last.op = "warn"
  /\ last.name = "a"
  /\ last.data = <<"x", "y">>
  /\ Emitted(last)
  /\ last.out[1].payload = [level |-> levels.warn, name |-> "a",
                             data |-> <<"x", "y">>]

\* write(undefined, data) on a logger was emitted at the lowest rank
C10_WitnessOmittedLevel ==
  /\ last.op = "write"
  /\ last.level = NoLevel
  /\ Emitted(last)
  /\ last.out[1].payload.level = levels.info

(***************************************************************************)
(* C11.  write is non-failing and leaves the logger state alone: every     *)
(* write / per-level call returns the logger it was called on; when the    *)
(* filter is false it delivers nothing to any sink; and in every case the  *)
(* loggers' fields, the registry, the global enable flag and the           *)
(* exclusivity holder stay as they are.                                    *)
(***************************************************************************)
C11_WriteNonFailing ==
  [][IsWrite(last')
     => /\ last'.ret = RetLogger(loggers[last'.name].id)
        /\ last'.self = loggers[last'.name].id
        /\ ~isEnabled(loggers[last'.name], RankOf(last'))
             => (last'.out = <<>> /\ sinks' = sinks)
        /\ loggers' = loggers
        /\ nextId' = nextId
        /\ enableAll' = enableAll
        /\ only' = only]_vars

(***************************************************************************)
(* C12.  The default logger: in every state 'global' is registered and is  *)
(* the Logger object made when the module was loaded; find('global')       *)
(* returns it, and create('global', options) returns it and changes        *)
(* nothing.                                                                *)
(***************************************************************************)
C12_DefaultLogger ==
  /\ []("global" \in Registered /\ _global.id = 1 /\ _global.name = "global")
  /\ [][(last'.name = "global" /\ last'.op \in {"find", "create"})
          => /\ last'.ret = RetLogger(1)
             /\ loggers' = loggers
             /\ nextId' = nextId
             /\ only' = only
             /\ enableAll' = enableAll
             /\ sinks' = sinks]_vars

\* create('global', options) with options that have `enabled` returned the
\* default logger, after another logger was registered
C12_Witness ==
  /\ last.op = "create"
  /\ last.name = "global"
  /\ last.hasEnabled
  /\ last.ret = RetLogger(_global.id)
  /\ Cardinality(Registered) > 1

(***************************************************************************)
(* C13.  find on an unregistered name returns the not-found result and     *)
(* changes nothing; create on an unregistered name registers a new Logger  *)
(* under it and returns that Logger.                                       *)
(***************************************************************************)
C13_NotFoundIsNormal ==
  [][/\ (last'.op = "find" /\ last'.name \notin Registered)
          => /\ last'.ret = RetUndefined
             /\ loggers' = loggers
             /\ nextId' = nextId
             /\ only' = only
             /\ enableAll' = enableAll
             /\ sinks' = sinks
     /\ (last'.op = "create" /\ last'.name \notin Registered)
          => /\ last'.name \in DOMAIN loggers'
             /\ last'.ret = RetLogger(loggers'[last'.name].id)
             /\ loggers'[last'.name].id \notin Ids
             /\ loggers'[last'.name].name = last'.name]_vars

(***************************************************************************)
(* C14.  A missing sink makes write a silent no-op: a write whose filter   *)
(* is true, on a logger whose stream is absent, delivers nothing, raises   *)
(* no error, returns the logger and changes nothing.                       *)
(***************************************************************************)
C14_MissingSinkNoOp ==
  [][(/\ IsWrite(last')
      /\ loggers[last'.name].stream = NoStream
      /\ isEnabled(loggers[last'.name], RankOf(last')))
     => /\ last'.ret = RetLogger(loggers[last'.name].id)
        /\ last'.out = <<>>
        /\ sinks' = sinks
        /\ loggers' = loggers
        /\ nextId' = nextId
        /\ enableAll' = enableAll
        /\ only' = only]_vars

(***************************************************************************)
(* C15.  The exclusivity reference is empty or is one logger of the        *)
(* registry; it is empty at the start, becomes non-empty only by only()    *)
(* and becomes empty only by all().                                        *)
(***************************************************************************)
C15_ExclusivityInvariant ==
  /\ only = NoRef
  /\ [](only # NoRef
          => Cardinality({n \in Registered : loggers[n].id = only}) = 1)
  /\ [][/\ (only = NoRef /\ only' # NoRef) => last'.op = "only"
        /\ (only # NoRef /\ only' = NoRef) => last'.op = "all"]_vars

\* logger 'a' holds exclusivity, and disable() on it has just left it so
C15_Witness ==
  /\ "a" \in Registered
  /\ only = loggers["a"].id
  /\ last.op = "disable"
  /\ last.self = only
  /\ ~loggers["a"].enabled

(***************************************************************************)
(* C16.  all() clears exclusivity unconditionally: whoever calls it and    *)
(* whoever holds exclusivity, it leaves the reference empty and changes    *)
(* nothing else; only() called with the reference empty makes the caller   *)
(* the holder.                                                             *)
(***************************************************************************)
C16_AllClears ==
  [][/\ last'.op = "all"
          => /\ only' = NoRef
             /\ last'.ret = RetLogger(loggers[last'.name].id)
             /\ loggers' = loggers
             /\ nextId' = nextId
             /\ enableAll' = enableAll
             /\ sinks' = sinks
     /\ (last'.op = "only" /\ only = NoRef)
          => only' = loggers[last'.name].id]_vars

\* all() was called on a logger while another logger held exclusivity, and
\* nobody holds it now
C16_Witness ==
  /\ last.op = "all"
  /\ last.held # NoRef
  /\ last.held # last.self
  /\ only = NoRef

C19_NoInterference ==
  [][last'.op \in {"enable", "disable", "level"}
     => \A n \in Registered \ {last'.name} :
          /\ loggers'[n].enabled = loggers[n].enabled
          /\ loggers'[n].level = loggers[n].level
          /\ \A m \in LevelNames :
               isEnabled(loggers[n], levels[m])'
                 = isEnabled(loggers[n], levels[m])]_vars

(***************************************************************************)
(* C20.  enableAll() and disableAll() change only the process-wide flag:   *)
(* they leave the enabled flag, threshold and stream of every registered   *)
(* logger, the global logger included, as they are; a logger's fields      *)
(* change only by enable, disable, level or pipe called on that logger.    *)
(***************************************************************************)
C20_GlobalFlagOnly ==
  [][/\ last'.op \in {"enableAll", "disableAll"}
          => \A n \in Registered :
               /\ loggers'[n].enabled = loggers[n].enabled
               /\ loggers'[n].level = loggers[n].level
               /\ loggers'[n].stream = loggers[n].stream
     /\ \A n \in Registered :
          loggers'[n] # loggers[n]
          => /\ last'.op \in {"enable", "disable", "level", "pipe"}
             /\ last'.name = n]_vars

=============================================================================
